---- MODULE Spec2Model ----
(***************************************************************************)
(* The UVRPC DSL code generators, tools/rpc_dsl_generator.py ("plain") and *)
(* tools/rpc_dsl_generator_with_flatcc.py ("flatcc"): the schema parser    *)
(* (RPCParser), the artifact renderer (RPCGenerator) and the orchestrator  *)
(* (main).  Schema text, names and file names are strings handled          *)
(* character by character, as the regular expressions and the str methods  *)
(* of the code handle them.                                                *)
(***************************************************************************)
EXTENDS Integers, Sequences, FiniteSets, TLC

VARIABLES
    content,     \* the text of the schema file (f.read())
    variant,     \* which generator runs: "flatcc" or "plain"
    argFlatcc,   \* args.flatcc: TRUE iff --flatcc was given
    broken,      \* the <<template, service index>> renders that raise
    pc,          \* the position of main
    trace,       \* the phases main has gone through in this run, in order
    rpc_data,    \* the parser's result (namespace, services, tables)
    flatcc_path, \* the compiler that main invokes ("" before resolution)
    returncode,  \* result.returncode of the compiler subprocess
    returned,    \* how main ended: "0", "1", "exit1", "exception", or "none"
    plan,        \* the render steps main goes through for rpc_data
    k,           \* the number of render steps main has gone through
    files,       \* the output directory: file name -> rendered content
    writes,      \* the write_text calls of this run, in order
    run,         \* the number of the current invocation
    prev         \* how the previous invocation ended, and the files it left

vars == <<content, variant, argFlatcc, broken, pc, trace, rpc_data,
          flatcc_path, returncode, returned, plan, k, files, writes, run, prev>>

(***************************************************************************)
(* Characters and the str methods the code uses.                           *)
(***************************************************************************)
UpperAlpha == "ABCDEFGHIJKLMNOPQRSTUVWXYZ"

LowerAlpha == "abcdefghijklmnopqrstuvwxyz"

Digits == "0123456789"

Chars(s) == {SubSeq(s, i, i) : i \in 1..Len(s)}

\* \w of the re module
WordChars == Chars(UpperAlpha) \cup Chars(LowerAlpha) \cup Chars(Digits) \cup {"_"}

\* \s of the re module, and what str.strip() removes
SpaceChars == {" ", "\n", "\t", "\r"}

\* s[i], or "" past the end
At(s, i) == IF i >= 1 /\ i <= Len(s) THEN SubSeq(s, i, i) ELSE ""

\* s[i-1:j-1] for 1-based i..j, "" when the range is empty
Slice(s, i, j) == IF i > j THEN "" ELSE SubSeq(s, i, j)

\* s.startswith(lit) at position i
MatchLit(s, i, lit) == /\ i + Len(lit) - 1 <= Len(s)
                       /\ Slice(s, i, i + Len(lit) - 1) = lit

\* the least element of a non-empty set of positions
First(P) == CHOOSE x \in P : \A y \in P : x <= y

\* the position of character c in s at or after i, 0 when there is none
IndexIn(s, c, i) ==
    LET P == {j \in i..Len(s) : At(s, j) = c}
    IN IF P = {} THEN 0 ELSE First(P)

\* the lower-case letter of each upper-case letter
LowerOf ==
    [c \in Chars(UpperAlpha) |-> At(LowerAlpha, IndexIn(UpperAlpha, c, 1))]

LowerChar(c) == IF c \in DOMAIN LowerOf THEN LowerOf[c] ELSE c

RECURSIVE LowerFrom(_, _)
LowerFrom(s, i) ==
    IF i > Len(s) THEN "" ELSE LowerChar(At(s, i)) \o LowerFrom(s, i + 1)

\* str.lower()
Lower(s) == LowerFrom(s, 1)

RECURSIVE SkipIn(_, _, _)
\* the first position at or after i whose character is not in set
\* (Len(s) + 1 when all are): the end of a greedy \s* or \w*
SkipIn(s, i, set) ==
    IF i <= Len(s) /\ At(s, i) \in set THEN SkipIn(s, i + 1, set) ELSE i

RECURSIVE SkipBack(_, _, _)
\* the last position at or before j whose character is not in set
\* (0 when all are)
SkipBack(s, j, set) ==
    IF j >= 1 /\ At(s, j) \in set THEN SkipBack(s, j - 1, set) ELSE j

\* str.strip()
Strip(s) ==
    LET a == SkipIn(s, 1, SpaceChars)
        b == SkipBack(s, Len(s), SpaceChars)
    IN Slice(s, a, b)

\* str.rstrip(';')
RStripSemi(s) == Slice(s, 1, SkipBack(s, Len(s), {";"}))

RECURSIVE SplitFrom(_, _, _)
SplitFrom(s, sep, i) ==
    LET j == IndexIn(s, sep, i)
    IN IF j = 0 THEN <<Slice(s, i, Len(s))>>
       ELSE <<Slice(s, i, j - 1)>> \o SplitFrom(s, sep, j + 1)

\* str.split(sep) for a one-character separator
Split(s, sep) == SplitFrom(s, sep, 1)

\* the positions of s at which the literal lit occurs
Occurrences(s, lit) ==
    LET c == SubSeq(lit, 1, 1)
        n == Len(lit)
    IN {j \in 1..(Len(s) - n + 1) :
           SubSeq(s, j, j) = c /\ SubSeq(s, j, j + n - 1) = lit}

\* 'Broadcast' in name
Contains(s, sub) == Occurrences(s, sub) # {}

(***************************************************************************)
(* RPCParser.                                                              *)
(***************************************************************************)
\* (a variant: the lookup ignores the case of the token)
type_mapping_ignoring_case(t) ==
    CASE Lower(t) = "int32" -> "int32_t"
      [] Lower(t) = "int64" -> "int64_t"
      [] Lower(t) = "uint32" -> "uint32_t"
      [] Lower(t) = "uint64" -> "uint64_t"
      [] Lower(t) = "float" -> "float"
      [] Lower(t) = "double" -> "double"
      [] Lower(t) = "bool" -> "bool"
      [] Lower(t) = "string" -> "const char*"
      [] Lower(t) = "ubyte" -> "uint8_t"
      [] Lower(t) = "byte" -> "int8_t"
      [] OTHER -> t

\* type_mapping.get(t, t)
type_mapping(t) ==
    CASE t = "int32" -> "int32_t"
      [] t = "int64" -> "int64_t"
      [] t = "uint32" -> "uint32_t"
      [] t = "uint64" -> "uint64_t"
      [] t = "float" -> "float"
      [] t = "double" -> "double"
      [] t = "bool" -> "bool"
      [] t = "string" -> "const char*"
      [] t = "ubyte" -> "uint8_t"
      [] t = "byte" -> "int8_t"
      [] OTHER -> t

\* the dict appended for one field line with parts = line.split(':')
FieldOf(parts) ==
    LET field_name == Strip(parts[1])
        field_type == RStripSemi(Strip(parts[2]))
        is_array == MatchLit(field_type, 1, "[")
                    /\ At(field_type, Len(field_type)) = "]"
        base_type == Slice(field_type, 2, Len(field_type) - 1)
    IN [name |-> field_name,
        type |-> IF is_array THEN type_mapping(base_type)
                 ELSE type_mapping(field_type),
        original_type |-> field_type,
        is_array |-> is_array]

\* the fields one raw line of a table body contributes (none or one)
FieldsOfLine(raw) ==
    LET line == Strip(raw)
        parts == Split(line, ":")
    IN IF line = "" \/ MatchLit(line, 1, "//") THEN <<>>
       ELSE IF Len(parts) = 2 THEN <<FieldOf(parts)>>
       ELSE <<>>

RECURSIVE FieldsOfLinesStopAtMalformed(_, _)
\* (a variant: the first malformed line ends the table)
FieldsOfLinesStopAtMalformed(lines, i) ==
    IF i > Len(lines) THEN <<>>
    ELSE IF /\ Strip(lines[i]) # ""
            /\ ~MatchLit(Strip(lines[i]), 1, "//")
            /\ Len(Split(Strip(lines[i]), ":")) # 2
         THEN <<>>
    ELSE FieldsOfLine(lines[i]) \o FieldsOfLinesStopAtMalformed(lines, i + 1)

RECURSIVE FieldsOfLines(_, _)
FieldsOfLines(lines, i) ==
    IF i > Len(lines) THEN <<>>
    ELSE FieldsOfLine(lines[i]) \o FieldsOfLines(lines, i + 1)

\* RPCParser._parse_fields
parse_fields(fields_str) == FieldsOfLines(Split(fields_str, "\n"), 1)

\* self.tables.get(request_type, [])
TableGet(tables, request_type) ==
    IF request_type \in DOMAIN tables THEN tables[request_type] ELSE <<>>

\* (a variant: no white space is allowed between the tokens)
MethodMatchNoSpaces(line) ==
    LET a == SkipIn(line, 1, WordChars)
        d == SkipIn(line, a + 1, WordChars)
        h == SkipIn(line, d + 2, WordChars)
    IN IF /\ a > 1
          /\ At(line, a) = "("
          /\ d > a + 1
          /\ At(line, d) = ")"
          /\ At(line, d + 1) = ":"
          /\ h > d + 2
       THEN <<Slice(line, 1, a - 1), Slice(line, a + 1, d - 1),
              Slice(line, d + 2, h - 1)>>
       ELSE <<>>

\* re.match(r'(\w+)\s*\(\s*(\w+)\s*\)\s*:\s*(\w+)', line): the three groups,
\* or <<>> when the line does not match
MethodMatch(line) ==
    LET a == SkipIn(line, 1, WordChars)
        b == SkipIn(line, a, SpaceChars)
        c == SkipIn(line, b + 1, SpaceChars)
        d == SkipIn(line, c, WordChars)
        e == SkipIn(line, d, SpaceChars)
        f == SkipIn(line, e + 1, SpaceChars)
        g == SkipIn(line, f + 1, SpaceChars)
        h == SkipIn(line, g, WordChars)
    IN IF /\ a > 1
          /\ At(line, b) = "("
          /\ d > c
          /\ At(line, e) = ")"
          /\ At(line, f) = ":"
          /\ h > g
       THEN <<Slice(line, 1, a - 1), Slice(line, c, d - 1), Slice(line, g, h - 1)>>
       ELSE <<>>

\* the methods one raw line of a service body contributes (none or one)
MethodsOfLine(raw, tables) ==
    LET line == Strip(raw)
        m == MethodMatch(line)
    IN IF line = "" \/ MatchLit(line, 1, "//") THEN <<>>
       ELSE IF m # <<>>
            THEN <<[name |-> m[1],
                    return |-> m[3],
                    request |-> m[2],
                    response |-> m[3],
                    request_fields |-> TableGet(tables, m[2])]>>
       ELSE <<>>

RECURSIVE MethodsOfLines(_, _, _)
MethodsOfLines(lines, i, tables) ==
    IF i > Len(lines) THEN <<>>
    ELSE MethodsOfLine(lines[i], tables) \o MethodsOfLines(lines, i + 1, tables)

\* RPCParser._parse_methods, reading self.tables
parse_methods(methods_str, tables) ==
    MethodsOfLines(Split(methods_str, "\n"), 1, tables)

\* (a variant: the body runs to the last "}" of the text)
BlockAtLastClose(s, kw, closes, i) ==
    LET a == i + Len(kw)
        b == SkipIn(s, a, SpaceChars)
        c == SkipIn(s, b, WordChars)
        d == SkipIn(s, c, SpaceChars)
        after == {x \in closes : x > d}
        e == IF after = {} THEN 0 ELSE CHOOSE x \in after : \A y \in after : y <= x
    IN IF /\ MatchLit(s, i, kw)
          /\ b > a
          /\ c > b
          /\ At(s, d) = "{"
          /\ e > d + 1
       THEN <<Slice(s, b, c - 1), Slice(s, d + 1, e - 1), e + 1>>
       ELSE <<>>

\* one match of  kw\s+(\w+)\s*\{([^}]+)\}  starting exactly at position i:
\* <<name, body, position after the match>>, or <<>>; closes are the
\* positions of the "}" of s
BlockAt(s, kw, closes, i) ==
    LET a == i + Len(kw)
        b == SkipIn(s, a, SpaceChars)
        c == SkipIn(s, b, WordChars)
        d == SkipIn(s, c, SpaceChars)
        after == {x \in closes : x > d}
        e == IF after = {} THEN 0 ELSE First(after)
    IN IF /\ MatchLit(s, i, kw)
          /\ b > a
          /\ c > b
          /\ At(s, d) = "{"
          /\ e > d + 1
       THEN <<Slice(s, b, c - 1), Slice(s, d + 1, e - 1), e + 1>>
       ELSE <<>>

RECURSIVE BlocksFrom(_, _)
\* the non-overlapping matches at or after position i, leftmost first;
\* found holds the match at each position where the pattern matches
BlocksFrom(found, i) ==
    LET P == {x \in found : x.start >= i}
    IN IF P = {} THEN <<>>
       ELSE LET x == CHOOSE y \in P : \A z \in P : y.start <= z.start
            IN <<[name |-> x.m[1], body |-> x.m[2], start |-> x.start]>>
               \o BlocksFrom(found, x.m[3])

\* re.finditer(pattern, content, re.DOTALL) for the table and the
\* rpc_service pattern: the matches in text order
finditer(s, kw) ==
    LET closes == Occurrences(s, "}")
        tried == {[start |-> j, m |-> BlockAt(s, kw, closes, j)] :
                     j \in Occurrences(s, kw)}
    IN BlocksFrom({x \in tried : x.m # <<>>}, 1)

\* one match of  namespace\s+(\w+);  starting exactly at position i:
\* <<identifier>>, or <<>>
NamespaceAt(s, i) ==
    LET a == i + Len("namespace")
        b == SkipIn(s, a, SpaceChars)
        c == SkipIn(s, b, WordChars)
    IN IF /\ MatchLit(s, i, "namespace")
          /\ b > a
          /\ c > b
          /\ At(s, c) = ";"
       THEN <<Slice(s, b, c - 1)>>
       ELSE <<>>

\* (a variant: the last namespace statement wins)
namespace_search_last(s) ==
    LET P == {j \in Occurrences(s, "namespace") : NamespaceAt(s, j) # <<>>}
    IN IF P = {} THEN ""
       ELSE NamespaceAt(s, CHOOSE x \in P : \A y \in P : y <= x)[1]

\* re.search(r'namespace\s+(\w+);', content): group 1 of the leftmost
\* match, "" when there is no match (self.namespace keeps its initial "")
namespace_search(s) ==
    LET P == {j \in Occurrences(s, "namespace") : NamespaceAt(s, j) # <<>>}
    IN IF P = {} THEN "" ELSE NamespaceAt(s, First(P))[1]

RECURSIVE TablesOfFirstWins(_, _, _)
\* (a variant: a table name that is already in the map keeps its fields)
TablesOfFirstWins(ms, i, acc) ==
    IF i > Len(ms) THEN acc
    ELSE TablesOfFirstWins(ms, i + 1,
                  [n \in DOMAIN acc \cup {ms[i].name} |->
                      IF n \in DOMAIN acc THEN acc[n]
                      ELSE parse_fields(ms[i].body)])

RECURSIVE TablesOf(_, _, _)
\* the loop  self.tables[table_name] = fields  over the matches
TablesOf(ms, i, acc) ==
    IF i > Len(ms) THEN acc
    ELSE TablesOf(ms, i + 1,
                  [n \in DOMAIN acc \cup {ms[i].name} |->
                      IF n = ms[i].name THEN parse_fields(ms[i].body)
                      ELSE acc[n]])

\* the table map after the first loop of parse
extract_tables(s) == TablesOf(finditer(s, "table"), 1, <<>>)

\* (a variant: only the tables declared in the text before the service)
tables_seen_declared_before(s, start) == extract_tables(Slice(s, 1, start - 1))

\* the tables _parse_methods sees when it parses the service matched at start
tables_seen(s, start) == extract_tables(s)

RECURSIVE ServicesOf(_, _, _)
\* the loop  self.services.append(...)  over the matches
ServicesOf(s, ms, i) ==
    IF i > Len(ms) THEN <<>>
    ELSE <<[name |-> ms[i].name,
            methods |-> parse_methods(ms[i].body, tables_seen(s, ms[i].start))]>>
         \o ServicesOf(s, ms, i + 1)

\* RPCParser.parse
parse(s) ==
    [namespace |-> namespace_search(s),
     services |-> ServicesOf(s, finditer(s, "rpc_service"), 1),
     tables |-> extract_tables(s)]

\* RPCParser.__init__
parser_init == [namespace |-> "", services |-> <<>>, tables |-> <<>>]

(***************************************************************************)
(* Schema texts.  A schema is a concatenation of statements and blocks,    *)
(* one per line group, as in the repository's .fbs files.                  *)
(***************************************************************************)
MaxBlocks == 3

MaxServices == 2

MaxRuns == 2

MaxLines == 2

\* statements and blocks for the parser
ParserBlocks ==
    <<"namespace Foo;",
      "table Req { x: string; }",
      "table Req {\n  a: int32;\n  b: [ubyte];\n}",
      "table T { a: int32; b: [ubyte]; }",
      "table Resp {\n  // result\n  ok: bool;\n}",
      "rpc_service Calc {\n  Call(Req):Resp;\n}",
      "rpc_service ChatBroadcast {\n  Send(Msg):Resp;\n  Get(T) : Resp;\n}",
      "namespace Bar;",
      "rpc_service Calc {\n  // note\n\n  bad line;\n  A(Req):Resp;\n  B ( T ) : Resp\n  NoParen:Resp;\n}",
      "rpc_service Nest {\n  A(Req):Resp;\n  opts { B(Req):Resp; }\n  C(Req):Resp;\n}",
      "table N {\n  a: int32;\n  inner {\n    b: int32;\n  }\n  c: bool;\n}">>

\* rpc_service blocks for the orchestrator
ServiceBlocks ==
    <<"rpc_service Calculator {\n  Add(Req):Resp;\n}",
      "rpc_service ChatBroadcast {\n  Send(Msg):Msg;\n}",
      "rpc_service Echo {\n  Ping(Req):Resp;\n}">>

RECURSIVE JoinLines(_, _, _)
\* the blocks chosen by idx, each followed by a newline
JoinLines(blocks, idx, i) ==
    IF i > Len(idx) THEN ""
    ELSE blocks[idx[i]] \o "\n" \o JoinLines(blocks, idx, i + 1)

\* every text of at most n blocks
Texts(blocks, n) ==
    {JoinLines(blocks, idx, 1) :
        idx \in UNION {[1..m -> DOMAIN blocks] : m \in 0..n}}

ParserSchemas == Texts(ParserBlocks, MaxBlocks)

PipelineSchemas ==
    {"namespace Demo;\n" \o t : t \in Texts(ServiceBlocks, MaxServices)}

\* declared types of table fields: the ten primitives, other tokens, and
\* bracketed tokens
TypeTokens ==
    <<"int32", "int64", "uint32", "uint64", "float", "double", "bool",
      "string", "ubyte", "byte", "Int32", "Foo", "[ubyte]", "[Foo]",
      "[[ubyte]]", "[int32">>

\* one field declaration per declared type, as a line of a table body
TypedLines == [i \in DOMAIN TypeTokens |-> "  v: " \o TypeTokens[i] \o ";"]

\* other lines of a table body: no colon, blank, comment, several colons,
\* a nested block, no semicolon
OtherLines ==
    <<"  garbage",
      "",
      "  // note",
      "  a: int32; // note: x",
      "  inner { b: int32; }",
      "  k : bool">>

FieldLines == TypedLines \o OtherLines

\* table T whose body has the given lines, one per line
TableText(body) == "table T {\n" \o body \o "}\n"

\* lines for longer table bodies: no colon, two well-formed declarations,
\* several colons
SiblingLines ==
    <<"  garbage", "  k : bool", "  v: string;", "  a: int32; // note: x">>

\* every schema of one table T of at most MaxLines body lines, and of one
\* more line over the sibling lines
FieldSchemas ==
    {TableText(b) :
        b \in Texts(FieldLines, MaxLines) \cup Texts(SiblingLines, MaxLines + 1)}

\* request/response services, two of them with names that are equal after
\* lowercasing and with different methods
RequestBlocks ==
    <<"rpc_service Calculator {\n  Add(Req):Resp;\n}",
      "rpc_service Echo {\n  Ping(Req):Resp;\n}",
      "rpc_service calculator {\n  Sub(Req):Resp;\n}">>

\* broadcast services
BroadcastBlocks ==
    <<"rpc_service ChatBroadcast {\n  Send(Msg):Msg;\n}",
      "rpc_service NewsBroadcast {\n  Post(Msg):Msg;\n}">>

\* the schemas whose services all have one mode
SameModeSchemas ==
    {"namespace Demo;\n" \o t :
        t \in Texts(RequestBlocks, MaxServices)
               \cup Texts(BroadcastBlocks, MaxServices)}

\* services whose names are equal after lowercasing, pair by pair: two
\* request/response services, and a broadcast service with a
\* request/response one
CollidingBlocks ==
    <<"rpc_service Calculator {\n  Add(Req):Resp;\n}",
      "rpc_service calculator {\n  Sub(Req):Resp;\n}",
      "rpc_service ChatBroadcast {\n  Send(Msg):Msg;\n}",
      "rpc_service chatbroadcast {\n  Recv(Msg):Msg;\n}">>

CollidingSchemas ==
    {"namespace Demo;\n" \o t : t \in Texts(CollidingBlocks, MaxServices)}

(***************************************************************************)
(* RPCGenerator: the template, the output file name and the rendering of   *)
(* each generate_* method.                                                 *)
(***************************************************************************)
GenerateCalls ==
    {"header", "common_header", "server_stub", "client_code", "common_code",
     "broadcast_api", "broadcast_publisher", "broadcast_subscriber"}

\* self.env.get_template(...) of generate_<call>
TemplateOf(call) ==
    CASE call = "header" -> "api.h.j2"
      [] call = "common_header" -> "rpc_common.h.j2"
      [] call = "server_stub" -> "server_stub.c.j2"
      [] call = "client_code" -> "client.c.j2"
      [] call = "common_code" -> "rpc_common.c.j2"
      [] call = "broadcast_api" -> "broadcast_api.h.j2"
      [] call = "broadcast_publisher" -> "broadcast_publisher.c.j2"
      [] call = "broadcast_subscriber" -> "broadcast_subscriber.c.j2"

\* the part of the file name after "{}_{}" in generate_<call>
SuffixOf(call) ==
    CASE call = "header" -> "_api.h"
      [] call = "common_header" -> "_rpc_common.h"
      [] call = "server_stub" -> "_server_stub.c"
      [] call = "client_code" -> "_client.c"
      [] call = "common_code" -> "_rpc_common.c"
      [] call = "broadcast_api" -> "_api.h"
      [] call = "broadcast_publisher" -> "_broadcast_publisher.c"
      [] call = "broadcast_subscriber" -> "_broadcast_subscriber.c"

\* (a variant: the service name keeps its letter case)
FileNameCaseKept(rpc, service, call) ==
    Lower(rpc.namespace) \o "_" \o service.name \o SuffixOf(call)

\* "{}_{}<suffix>".format(rpc_data['namespace'].lower(), service['name'].lower())
FileName(rpc, service, call) ==
    Lower(rpc.namespace) \o "_" \o Lower(service.name) \o SuffixOf(call)

\* template.render(**service_data): the template engine is deterministic, so
\* the output is determined by the template and the render context (whose
\* service_name_lower and service_name_upper are functions of the service)
Render(rpc, service, call) ==
    [template |-> TemplateOf(call),
     namespace |-> rpc.namespace,
     service |-> service]

\* output_path.write_text(output): the directory after the write
WriteText(dir, filename, output) ==
    [f \in DOMAIN dir \cup {filename} |->
        IF f = filename THEN output ELSE dir[f]]

(***************************************************************************)
(* main.                                                                   *)
(***************************************************************************)
\* 'Broadcast' in service['name']
IsBroadcast(service) == Contains(service.name, "Broadcast")

\* (a variant: every iteration makes the calls of both modes)
CallsOfBothModes(v, service) ==
    IF v = "plain" THEN <<"header", "server_stub", "client_code">>
    ELSE <<"header", "common_header", "server_stub", "client_code",
           "common_code", "broadcast_api", "broadcast_publisher",
           "broadcast_subscriber">>

\* the generate_* calls main makes in one iteration of its loop over the
\* services (flatcc), or once for the whole schema (plain)
CallsOf(v, service) ==
    IF v = "plain" THEN <<"header", "server_stub", "client_code">>
    ELSE IF IsBroadcast(service)
         THEN <<"broadcast_api", "broadcast_publisher", "broadcast_subscriber">>
    ELSE <<"header", "common_header", "server_stub", "client_code", "common_code">>

\* one generate_* method: its loop over rpc_data['services']
CallSteps(call, n) == [j \in 1..n |-> <<call, j>>]

RECURSIVE CallsSteps(_, _, _)
\* consecutive generate_* calls, each looping over all n services
CallsSteps(calls, c, n) ==
    IF c > Len(calls) THEN <<>>
    ELSE CallSteps(calls[c], n) \o CallsSteps(calls, c + 1, n)

RECURSIVE LoopSteps(_, _, _)
\* the loop of main over the services, from its i-th iteration on
LoopSteps(v, services, i) ==
    IF i > Len(services) THEN <<>>
    ELSE CallsSteps(CallsOf(v, services[i]), 1, Len(services))
         \o LoopSteps(v, services, i + 1)

\* the render steps of main in execution order, each <<generate call,
\* index of the service it renders>>
Schedule(v, rpc) ==
    IF v = "plain"
    THEN CallsSteps(CallsOf(v, <<>>), 1, Len(rpc.services))
    ELSE LoopSteps(v, rpc.services, 1)

\* (a variant: the compiler runs before the schema is parsed)
StepsCompilerFirst(v) ==
    IF v = "plain" THEN <<"run_flatcc", "parse", "generate">>
    ELSE <<"find_flatcc", "run_flatcc", "parse", "generate">>

\* the order of the phases of main
Steps(v) ==
    IF v = "plain" THEN <<"parse", "run_flatcc", "generate">>
    ELSE <<"parse", "find_flatcc", "run_flatcc", "generate">>

\* the phase that follows step
StepAfter(v, step) ==
    LET i == CHOOSE x \in DOMAIN Steps(v) : Steps(v)[x] = step
    IN Steps(v)[i + 1]

\* flatcc_path as main resolves it (lines 345-358), "" when none is found
ResolveFlatcc(explicit, foundBundled, foundOnPath) ==
    LET first == IF explicit THEN "explicit" ELSE ""
        second == IF foundBundled THEN "bundled" ELSE first
    IN IF second # "" THEN second
       ELSE IF foundOnPath THEN "system" ELSE ""

\* (a variant: the return code is not tested)
AfterFlatccUnchecked(v, rc) == StepAfter(v, "run_flatcc")

\* what main does with result.returncode: the phase it goes on to
AfterFlatcc(v, rc) ==
    IF rc # "zero" THEN "end" ELSE StepAfter(v, "run_flatcc")

\* (a variant: the failed artifact is skipped and the loop goes on)
RaiseSwallowed ==
    /\ k' = k + 1
    /\ UNCHANGED <<pc, returned, files, writes>>

\* an exception raised by get_template or render inside generate_*: nothing
\* catches it, so it leaves main
Raise ==
    /\ pc' = "end"
    /\ returned' = "exception"
    /\ UNCHANGED <<files, writes, k>>

Templates == {TemplateOf(c) : c \in GenerateCalls}

BrokenChoices ==
    {{}} \cup {{<<t, j>>} : t \in Templates, j \in 1..MaxServices}

Env == <<content, variant, argFlatcc, broken>>

Fresh ==
    /\ pc = Steps(variant)[1]
    /\ trace = <<>>
    /\ rpc_data = parser_init
    /\ plan = <<>>
    /\ flatcc_path = ""
    /\ returncode = "none"
    /\ returned = "none"
    /\ k = 0
    /\ writes = <<>>

Init ==
    /\ content \in PipelineSchemas
    /\ variant \in {"flatcc", "plain"}
    /\ argFlatcc \in BOOLEAN
    /\ variant = "plain" => argFlatcc
    /\ broken \in BrokenChoices
    /\ Fresh
    /\ files = <<>>
    /\ run = 1
    /\ prev = [returned |-> "none", files |-> <<>>]

\* rpc_parser.parse()
Parse ==
    /\ pc = "parse"
    /\ rpc_data' = parse(content)
    /\ plan' = Schedule(variant, rpc_data')
    /\ pc' = StepAfter(variant, "parse")
    /\ trace' = Append(trace, "parse")
    /\ UNCHANGED <<Env, flatcc_path, returncode, returned, k, files, writes,
                   run, prev>>

\* lines 345-364 of the flatcc variant; whether find_bundled_flatcc() and
\* shutil.which('flatcc') find an executable is up to the environment
FindFlatcc ==
    /\ pc = "find_flatcc"
    /\ \E foundBundled \in BOOLEAN, foundOnPath \in BOOLEAN :
          flatcc_path' = ResolveFlatcc(argFlatcc, foundBundled, foundOnPath)
    /\ IF flatcc_path' = ""
       THEN pc' = "end" /\ returned' = "exit1"
       ELSE pc' = StepAfter(variant, "find_flatcc") /\ returned' = returned
    /\ trace' = Append(trace, "find_flatcc")
    /\ UNCHANGED <<Env, rpc_data, plan, returncode, k, files, writes, run, prev>>

\* subprocess.run([...]) and the test of result.returncode
RunFlatcc ==
    /\ pc = "run_flatcc"
    /\ \E rc \in {"zero", "nonzero"} :
          /\ returncode' = rc
          /\ pc' = AfterFlatcc(variant, rc)
          /\ returned' = IF pc' = "end" THEN "1" ELSE returned
    /\ flatcc_path' = IF variant = "plain" THEN "explicit" ELSE flatcc_path
    /\ trace' = Append(trace, "run_flatcc")
    /\ UNCHANGED <<Env, rpc_data, plan, k, files, writes, run, prev>>

\* one iteration of the loop of generate_<call>
Generate(call) ==
    /\ pc = "generate"
    /\ k < Len(plan)
    /\ plan[k + 1][1] = call
    /\ LET j == plan[k + 1][2]
           service == rpc_data.services[j]
       IN IF <<TemplateOf(call), j>> \in broken
          THEN Raise
          ELSE \E filename \in {FileName(rpc_data, service, call)} :
                  /\ files' = WriteText(files, filename,
                                        Render(rpc_data, service, call))
                  /\ writes' = Append(writes, [service |-> j, file |-> filename])
                  /\ k' = k + 1
                  /\ UNCHANGED <<pc, returned>>
    /\ UNCHANGED <<Env, trace, rpc_data, plan, flatcc_path, returncode, run, prev>>

generate_header == Generate("header")

generate_common_header == Generate("common_header")

generate_server_stub == Generate("server_stub")

generate_client_code == Generate("client_code")

generate_common_code == Generate("common_code")

generate_broadcast_api == Generate("broadcast_api")

generate_broadcast_publisher == Generate("broadcast_publisher")

generate_broadcast_subscriber == Generate("broadcast_subscriber")

\* print("Code generation complete!"); return 0
Return0 ==
    /\ pc = "generate"
    /\ k = Len(plan)
    /\ pc' = "end"
    /\ returned' = "0"
    /\ UNCHANGED <<Env, trace, rpc_data, plan, flatcc_path, returncode, k, files, writes,
                   run, prev>>

\* the tool is invoked again on the same schema, templates and output
\* directory
Rerun ==
    /\ pc = "end"
    /\ run < MaxRuns
    /\ run' = run + 1
    /\ prev' = [returned |-> returned, files |-> files]
    /\ pc' = Steps(variant)[1]
    /\ trace' = <<>>
    /\ rpc_data' = parser_init
    /\ plan' = <<>>
    /\ flatcc_path' = ""
    /\ returncode' = "none"
    /\ returned' = "none"
    /\ k' = 0
    /\ writes' = <<>>
    /\ UNCHANGED <<Env, files>>

Next ==
    \/ Parse
    \/ FindFlatcc
    \/ RunFlatcc
    \/ generate_header
    \/ generate_common_header
    \/ generate_server_stub
    \/ generate_client_code
    \/ generate_common_code
    \/ generate_broadcast_api
    \/ generate_broadcast_publisher
    \/ generate_broadcast_subscriber
    \/ Return0
    \/ Rerun

Spec == Init /\ [][Next]_vars

(***************************************************************************)
(* The parser alone, over the parser's schema texts.                       *)
(***************************************************************************)
ParserInit ==
    /\ content \in ParserSchemas
    /\ variant \in {"flatcc", "plain"}
    /\ argFlatcc = TRUE
    /\ broken = {}
    /\ Fresh
    /\ files = <<>>
    /\ run = 1
    /\ prev = [returned |-> "none", files |-> <<>>]

ParserNext == Parse

ParserSpec == ParserInit /\ [][ParserNext]_vars

(***************************************************************************)
(* The parser alone, over the schemas of one table.                        *)
(***************************************************************************)
FieldsInit ==
    /\ content \in FieldSchemas
    /\ variant \in {"flatcc", "plain"}
    /\ argFlatcc = TRUE
    /\ broken = {}
    /\ Fresh
    /\ files = <<>>
    /\ run = 1
    /\ prev = [returned |-> "none", files |-> <<>>]

FieldsSpec == FieldsInit /\ [][ParserNext]_vars

(***************************************************************************)
(* The flatcc variant over the schemas whose services all have one mode,   *)
(* with templates that all render.                                         *)
(***************************************************************************)
SameModeInit ==
    /\ content \in SameModeSchemas
    /\ variant = "flatcc"
    /\ argFlatcc \in BOOLEAN
    /\ broken = {}
    /\ Fresh
    /\ files = <<>>
    /\ run = 1
    /\ prev = [returned |-> "none", files |-> <<>>]

SameModeSpec == SameModeInit /\ [][Next]_vars

(***************************************************************************)
(* Both variants over the schemas with colliding service names, with       *)
(* templates that all render.                                              *)
(***************************************************************************)
CollidingInit ==
    /\ content \in CollidingSchemas
    /\ variant \in {"flatcc", "plain"}
    /\ argFlatcc \in BOOLEAN
    /\ variant = "plain" => argFlatcc
    /\ broken = {}
    /\ Fresh
    /\ files = <<>>
    /\ run = 1
    /\ prev = [returned |-> "none", files |-> <<>>]

CollidingSpec == CollidingInit /\ [][Next]_vars

(***************************************************************************)
(* The specification's statements about the generators.                    *)
(***************************************************************************)
\* main returned 0
Succeeded == pc = "end" /\ returned = "0"

\* the schema has been parsed in this run
Parsed == \E x \in DOMAIN trace : trace[x] = "parse"

Services == rpc_data.services

\* the artifact table of the specification (section 4.4): the generate
\* calls of a service's own mode
OwnModeCalls(service) ==
    IF Contains(service.name, "Broadcast")
    THEN {"broadcast_api", "broadcast_publisher", "broadcast_subscriber"}
    ELSE {"header", "common_header", "common_code", "server_stub", "client_code"}

\* the file names of the artifact set of the i-th service's own mode
OwnModeFiles(i) ==
    {FileName(rpc_data, Services[i], c) : c \in OwnModeCalls(Services[i])}

\* the files written in this run while rendering the i-th service
WrittenFor(i) ==
    {writes[x].file : x \in {y \in DOMAIN writes : writes[y].service = i}}

\* C1: in the flatcc variant, after a successful run, the files written for
\* each service are exactly the artifact set of that service's own mode (3
\* broadcast files or 5 request/response files), also in a schema that has
\* services of both modes.
C1_ExactlyOwnModeArtifacts ==
    (variant = "flatcc" /\ Succeeded) =>
        \A i \in DOMAIN Services : WrittenFor(i) = OwnModeFiles(i)

\* C2: in the flatcc variant, at the end of a successful run the file
\* {ns}_{svc}_api.h of each service is rendered from the header template of
\* the service's own mode: broadcast_api.h.j2 for a Broadcast service,
\* api.h.j2 otherwise.
C2_HeaderFromOwnModeTemplate ==
    (variant = "flatcc" /\ Succeeded) =>
        \A i \in DOMAIN Services :
            LET name == FileName(rpc_data, Services[i], "header")
            IN /\ name \in DOMAIN files
               /\ files[name].template =
                     IF Contains(Services[i].name, "Broadcast")
                     THEN "broadcast_api.h.j2" ELSE "api.h.j2"

\* C3: when the compiler subprocess returns a non-zero exit code, main
\* returns 1 and no artifact file is written in that run (both variants).
C3_CompilerFailureWritesNothing ==
    returncode = "nonzero" =>
        /\ pc = "end"
        /\ returned = "1"
        /\ writes = <<>>
        /\ (run > 1 => files = prev.files)

C3_Witness ==
    /\ returncode = "nonzero"
    /\ returned = "1"
    /\ Parsed
    /\ Len(Services) = MaxServices

\* C4: in the sequence of artifact writes of one run, every write for an
\* earlier service precedes every write for a later service (the artifacts
\* of different services are never interleaved).
C4_NoInterleavingAcrossServices ==
    \A a \in DOMAIN writes, b \in DOMAIN writes :
        a < b => writes[a].service <= writes[b].service

\* the position of phase step in the trace, 0 when it has not run
PhaseAt(step) ==
    IF \E x \in DOMAIN trace : trace[x] = step
    THEN CHOOSE x \in DOMAIN trace : trace[x] = step
    ELSE 0

\* C5 (as stated): the compiler is invoked before the schema is parsed: the
\* parse happens only after the compiler subprocess has returned, and a
\* failing compiler means the schema is never parsed.
C5_CompilerBeforeParse ==
    /\ Parsed => (PhaseAt("run_flatcc") > 0 /\ PhaseAt("run_flatcc") < PhaseAt("parse"))
    /\ returncode = "nonzero" => ~Parsed

\* C5 (amended): the schema is parsed before the compiler is looked up and
\* invoked: the compiler subprocess starts only after the parse has
\* completed (so the schema is parsed also when the compiler fails), and
\* artifacts are rendered only after the compiler has returned 0.
C5_ParseBeforeCompiler ==
    /\ PhaseAt("find_flatcc") > 0 => (Parsed /\ PhaseAt("parse") < PhaseAt("find_flatcc"))
    /\ PhaseAt("run_flatcc") > 0 => (Parsed /\ PhaseAt("parse") < PhaseAt("run_flatcc"))
    /\ returncode # "none" => Parsed
    /\ (k > 0 \/ writes # <<>>) => returncode = "zero"

C5_Witness ==
    /\ returncode = "nonzero"
    /\ Parsed
    /\ Len(Services) > 0
    /\ pc = "end"

\* the render step main is about to make raises
NextRenderFails ==
    /\ pc = "generate"
    /\ k < Len(plan)
    /\ <<TemplateOf(plan[k + 1][1]), plan[k + 1][2]>> \in broken

\* C6: when the rendering of the k-th artifact fails, the run aborts at
\* once: the failing step writes nothing, the files written before stay as
\* they are, nothing is written later in the run, and the run never
\* reports success.
C6_RenderFailureAborts ==
    [][/\ NextRenderFails =>
            /\ pc' = "end"
            /\ returned' = "exception"
            /\ files' = files
            /\ writes' = writes
       /\ (returned = "exception" /\ run' = run) =>
            /\ returned' = "exception"
            /\ files' = files
            /\ writes' = writes]_vars

C6_Witness ==
    /\ pc = "end"
    /\ returned = "exception"
    /\ Len(writes) > MaxServices
    /\ Len(writes) < Len(plan)
    /\ \A x \in DOMAIN writes : writes[x].file \in DOMAIN files

\* C7: in the plain variant, a run that returns 0 has written, for every
\* service, the complete artifact set of the service's mode of the
\* specification's table (five request/response files, or three broadcast
\* files for a service whose name contains "Broadcast").
C7_PlainWritesCompleteSets ==
    (variant = "plain" /\ Succeeded) =>
        \A i \in DOMAIN Services : OwnModeFiles(i) \subseteq DOMAIN files

\* C8: running the pipeline again on the same schema, templates and output
\* directory leaves the directory as the run before left it: the rerun only
\* overwrites files with identical content, adds no file and removes none,
\* so at every moment of the rerun the directory has the same files with the
\* same content per file as after the first (successful) run.
C8_RerunIdempotent ==
    (run > 1 /\ prev.returned = "0") => files = prev.files

\* the fields of the last table block named name in the text, <<>> when
\* the text has no such block
LastTableFields(text, name) ==
    LET ms == finditer(text, "table")
        at == {x \in DOMAIN ms : ms[x].name = name}
    IN IF at = {} THEN <<>>
       ELSE parse_fields(ms[CHOOSE x \in at : \A y \in at : y <= x].body)

\* C9: the request field list of every method is the field list of the
\* table named by its request type in the table map built over the whole
\* text: the same whether the table stands before or after the service, the
\* last definition when the name repeats, and empty when there is none.
C9_RequestFieldsFromWholeText ==
    Parsed =>
        /\ \A i \in DOMAIN Services :
              \A m \in DOMAIN Services[i].methods :
                 LET method == Services[i].methods[m]
                 IN /\ method.request_fields = LastTableFields(content, method.request)
                    /\ method.request_fields = TableGet(rpc_data.tables, method.request)
        /\ content = "rpc_service Calc {\n  Call(Req):Resp;\n}\ntable Req { x: string; }\n" =>
              Services[1].methods[1].request_fields =
                 <<[name |-> "x", type |-> "const char*",
                    original_type |-> "string", is_array |-> FALSE]>>

C9_Witness ==
    /\ Parsed
    /\ \E i \in DOMAIN Services :
          \E m \in DOMAIN Services[i].methods :
             LET method == Services[i].methods[m]
                 tabs == finditer(content, "table")
                 svcs == finditer(content, "rpc_service")
             IN /\ Len(method.request_fields) = 2
                /\ Len(tabs) = 2
                /\ \A x \in DOMAIN tabs :
                      tabs[x].name = method.request /\ tabs[x].start > svcs[i].start

\* C10: a table whose body declares several fields on one line, as in
\* table T { a: int32; b: [ubyte]; }, parses to one Field per declaration in
\* declaration order: a (int32_t, not an array), then b (uint8_t, an array).
C10_SeveralFieldsOnOneLine ==
    (Parsed /\ content = "table T { a: int32; b: [ubyte]; }\n") =>
        /\ "T" \in DOMAIN rpc_data.tables
        /\ Len(rpc_data.tables["T"]) = 2
        /\ rpc_data.tables["T"][1].name = "a"
        /\ rpc_data.tables["T"][1].type = "int32_t"
        /\ rpc_data.tables["T"][1].is_array = FALSE
        /\ rpc_data.tables["T"][2].name = "b"
        /\ rpc_data.tables["T"][2].type = "uint8_t"
        /\ rpc_data.tables["T"][2].is_array = TRUE

\* the fields of table T in the parser's result
FieldsOfT == TableGet(rpc_data.tables, "T")

\* the lookup table of the specification (section 4.1)
PrimitiveTable ==
    ("int32" :> "int32_t") @@ ("int64" :> "int64_t") @@
    ("uint32" :> "uint32_t") @@ ("uint64" :> "uint64_t") @@
    ("float" :> "float") @@ ("double" :> "double") @@ ("bool" :> "bool") @@
    ("string" :> "const char*") @@ ("ubyte" :> "uint8_t") @@
    ("byte" :> "int8_t")

\* the token is enclosed in [ ]
Bracketed(t) == MatchLit(t, 1, "[") /\ At(t, Len(t)) = "]"

\* C11: the type mapping is total: a field whose declared type is one of
\* the ten primitives has the primitive's target token, and a field whose
\* declared type is any other non-bracketed token (Int32, Foo) has that
\* token unchanged; both with is_array FALSE.
C11_TypeMappingTotal ==
    Parsed =>
        /\ \A x \in DOMAIN FieldsOfT :
              LET f == FieldsOfT[x]
              IN ~Bracketed(f.original_type) =>
                    /\ f.is_array = FALSE
                    /\ f.type = IF f.original_type \in DOMAIN PrimitiveTable
                                THEN PrimitiveTable[f.original_type]
                                ELSE f.original_type
        /\ \A i \in DOMAIN TypeTokens :
              (~Bracketed(TypeTokens[i]) /\ content = TableText(TypedLines[i] \o "\n")) =>
                 FieldsOfT =
                    <<[name |-> "v",
                       type |-> IF TypeTokens[i] \in DOMAIN PrimitiveTable
                                THEN PrimitiveTable[TypeTokens[i]]
                                ELSE TypeTokens[i],
                       original_type |-> TypeTokens[i],
                       is_array |-> FALSE]>>

C11_Witness ==
    /\ Parsed
    /\ Len(FieldsOfT) = 2
    /\ FieldsOfT[1].original_type = "Int32" /\ FieldsOfT[1].type = "Int32"
    /\ FieldsOfT[2].original_type = "string" /\ FieldsOfT[2].type = "const char*"

RECURSIVE ResolveRecursively(_)
\* the resolved type of the specification (section 4.1): the brackets are
\* removed level by level, then the lookup table is applied
ResolveRecursively(t) ==
    IF Bracketed(t) THEN ResolveRecursively(Slice(t, 2, Len(t) - 1))
    ELSE IF t \in DOMAIN PrimitiveTable THEN PrimitiveTable[t]
    ELSE t

\* C12: a field whose declared type is enclosed in [ ] has is_array TRUE
\* and, as its type, the type mapping applied recursively to the inner
\* token: [ubyte] gives uint8_t, [Foo] gives Foo, [[ubyte]] gives uint8_t.
C12_ArrayResolvesRecursively ==
    Parsed =>
        \A x \in DOMAIN FieldsOfT :
            LET f == FieldsOfT[x]
            IN Bracketed(f.original_type) =>
                  /\ f.is_array = TRUE
                  /\ f.type = ResolveRecursively(f.original_type)

\* the body of the first table block of the schema
BodyOfT == finditer(content, "table")[1].body

RECURSIVE LinesWithColon(_, _)
\* the lines that contain a colon, in order, one per line
LinesWithColon(lines, i) ==
    IF i > Len(lines) THEN ""
    ELSE (IF IndexIn(lines[i], ":", 1) # 0 THEN lines[i] \o "\n" ELSE "")
         \o LinesWithColon(lines, i + 1)

\* C13: a table body with a line that has no colon parses without error:
\* the line contributes no field, and the other lines yield the fields they
\* yield without it, in the same order.
C13_ColonlessLineSkipped ==
    Parsed =>
        /\ "T" \in DOMAIN rpc_data.tables
        /\ FieldsOfT = parse_fields(LinesWithColon(Split(BodyOfT, "\n"), 1))
        /\ content = TableText("  v: string;\n  garbage\n  k : bool\n") =>
              FieldsOfT =
                 <<[name |-> "v", type |-> "const char*",
                    original_type |-> "string", is_array |-> FALSE],
                   [name |-> "k", type |-> "bool",
                    original_type |-> "bool", is_array |-> FALSE]>>
        /\ content = TableText("  garbage\n") => FieldsOfT = <<>>

C13_Witness ==
    /\ Parsed
    /\ content = TableText("  v: string;\n  garbage\n  k : bool\n")
    /\ Len(FieldsOfT) = 2

\* C14: in the flatcc variant, a compiler path given on the command line
\* is the one invoked; a bundled or system compiler is used only when no
\* path was given; and when no compiler is found the run exits with code 1
\* before the compiler is run and before any artifact is written.
C14_ExplicitPathWins ==
    variant = "flatcc" =>
        /\ (argFlatcc /\ PhaseAt("run_flatcc") > 0) => flatcc_path = "explicit"
        /\ flatcc_path \in {"bundled", "system"} => ~argFlatcc
        /\ returned = "exit1" =>
              /\ ~argFlatcc
              /\ flatcc_path = ""
              /\ PhaseAt("run_flatcc") = 0
              /\ writes = <<>>

\* C15: the parsed namespace is the identifier of the first namespace
\* statement of the text (the text between "namespace " and the next ";"),
\* whatever namespace statements follow, and "" when the text has none.
C15_FirstNamespaceWins ==
    Parsed =>
        LET P == Occurrences(content, "namespace ")
        IN /\ P = {} => rpc_data.namespace = ""
           /\ P # {} =>
                 rpc_data.namespace =
                    Slice(content, First(P) + Len("namespace "),
                          IndexIn(content, ";", First(P)) - 1)
           /\ MatchLit(content, 1, "namespace Foo;\nnamespace Bar;\n") =>
                 rpc_data.namespace = "Foo"

C15_Witness ==
    /\ Parsed
    /\ Cardinality(Occurrences(content, "namespace ")) = 2
    /\ rpc_data.namespace = "Bar"
    /\ Occurrences(content, "namespace Foo;") # {}

\* the line of a table body declares a field: not blank, not a comment,
\* and with a colon
DeclaresField(raw) ==
    /\ Strip(raw) # ""
    /\ ~MatchLit(Strip(raw), 1, "//")
    /\ IndexIn(Strip(raw), ":", 1) # 0

\* C16: every non-blank, non-comment line of a table body is split on its
\* first colon only, so also a line with several colons (a: int32; // note:
\* x) yields a field: its name is the trimmed text before the first colon,
\* its declared type the trimmed rest with a trailing ; stripped.
C16_SplitOnFirstColon ==
    Parsed =>
        LET decls == SelectSeq(Split(BodyOfT, "\n"), DeclaresField)
        IN /\ Len(FieldsOfT) = Len(decls)
           /\ \A x \in DOMAIN decls :
                 LET line == Strip(decls[x])
                     c == IndexIn(line, ":", 1)
                 IN x \in DOMAIN FieldsOfT =>
                       /\ FieldsOfT[x].name = Strip(Slice(line, 1, c - 1))
                       /\ FieldsOfT[x].original_type =
                             RStripSemi(Strip(Slice(line, c + 1, Len(line))))

\* the names of the methods of a service, in order
MethodNames(service) == [m \in DOMAIN service.methods |-> service.methods[m].name]

\* C17: when a name repeats, the table map has one key for it, holding the
\* fields of the last table block of that name, and the service list has
\* one entry per rpc_service block, in text order, each with the methods of
\* its own block.
C17_TablesLastWinsServicesAppend ==
    Parsed =>
        LET tabs == finditer(content, "table")
        IN /\ DOMAIN rpc_data.tables = {tabs[x].name : x \in DOMAIN tabs}
           /\ \A n \in DOMAIN rpc_data.tables :
                 rpc_data.tables[n] = LastTableFields(content, n)
           /\ Len(Services) = Cardinality(Occurrences(content, "rpc_service "))
           /\ content = ParserBlocks[2] \o "\n" \o ParserBlocks[3] \o "\n" =>
                 /\ DOMAIN rpc_data.tables = {"Req"}
                 /\ Len(rpc_data.tables["Req"]) = 2
                 /\ rpc_data.tables["Req"][1].name = "a"
                 /\ rpc_data.tables["Req"][2].name = "b"
           /\ content = ParserBlocks[6] \o "\n" \o ParserBlocks[9] \o "\n" =>
                 /\ Len(Services) = 2
                 /\ Services[1].name = "Calc" /\ MethodNames(Services[1]) = <<"Call">>
                 /\ Services[2].name = "Calc" /\ MethodNames(Services[2]) = <<"A", "B">>

C17_Witness ==
    /\ Parsed
    /\ MatchLit(content, 1, ParserBlocks[2] \o "\n" \o ParserBlocks[3] \o "\n")
    /\ Len(rpc_data.tables["Req"]) = 2
    /\ Len(Services) = 1

\* the <<name, request, return>> of the methods of a service, in order
MethodTriples(service) ==
    [m \in DOMAIN service.methods |->
        <<service.methods[m].name, service.methods[m].request,
          service.methods[m].return>>]

\* the lines of the rpc_service bodies of the schema texts that have the
\* form identifier ( identifier ) : identifier, read off by hand
MatchingLines(body) ==
    IF Contains(body, "bad line")
    THEN <<<<"A", "Req", "Resp">>, <<"B", "T", "Resp">>>>
    ELSE IF Contains(body, "opts") THEN <<<<"A", "Req", "Resp">>>>
    ELSE IF Contains(body, "Send")
    THEN <<<<"Send", "Msg", "Resp">>, <<"Get", "T", "Resp">>>>
    ELSE <<<<"Call", "Req", "Resp">>>>

\* C18: the method list of a service is the in-order sequence of its body
\* lines of the form identifier ( identifier ) : identifier, one method per
\* such line and none for any other line (blank, comment, malformed), and
\* every method's return and response are equal.
C18_MethodsAreMatchingLines ==
    Parsed =>
        LET svcs == finditer(content, "rpc_service")
        IN /\ Len(Services) = Len(svcs)
           /\ \A i \in DOMAIN Services :
                 /\ i \in DOMAIN svcs =>
                       MethodTriples(Services[i]) = MatchingLines(svcs[i].body)
                 /\ \A m \in DOMAIN Services[i].methods :
                       Services[i].methods[m].response = Services[i].methods[m].return

C18_Witness ==
    /\ Parsed
    /\ \E i \in DOMAIN Services :
          /\ Contains(finditer(content, "rpc_service")[i].body, "bad line")
          /\ MethodNames(Services[i]) = <<"A", "B">>

\* the names of the fields of a table, in order
FieldNames(fields) == [x \in DOMAIN fields |-> fields[x].name]

\* C19: the body of a table or rpc_service block ends at the first "}"
\* after its opening brace: with a nested { } in the block, the lines
\* before that brace give the fields or methods, the declarations after it
\* are dropped, and the parse still completes.
C19_FirstClosingBraceEndsBody ==
    Parsed =>
        LET tabs == finditer(content, "table")
            svcs == finditer(content, "rpc_service")
        IN /\ \A x \in DOMAIN tabs : ~Contains(tabs[x].body, "}")
           /\ \A x \in DOMAIN svcs : ~Contains(svcs[x].body, "}")
           /\ Contains(content, "table N {") =>
                 /\ "N" \in DOMAIN rpc_data.tables
                 /\ FieldNames(rpc_data.tables["N"]) = <<"a", "b">>
           /\ \A i \in DOMAIN Services :
                 Services[i].name = "Nest" => MethodNames(Services[i]) = <<"A">>
           /\ Len(Services) = Len(svcs)

C19_Witness ==
    /\ Parsed
    /\ Contains(content, "table N {")
    /\ FieldNames(rpc_data.tables["N"]) = <<"a", "b">>
    /\ \E i \in DOMAIN Services : Services[i].name = "Nest" /\ Len(Services[i].methods) = 1

\* all services of the schema have the same mode
SameMode ==
    \A i \in DOMAIN Services, j \in DOMAIN Services :
        IsBroadcast(Services[i]) = IsBroadcast(Services[j])

\* the output directory the reference orchestration leaves: for each
\* service in declaration order, the artifact set of its own mode is
\* rendered once, a later write to a file name replacing an earlier one
ReferenceFiles ==
    LET steps == {st \in (DOMAIN Services) \X GenerateCalls :
                     st[2] \in OwnModeCalls(Services[st[1]])}
        nameOf == [st \in steps |-> FileName(rpc_data, Services[st[1]], st[2])]
    IN [f \in {nameOf[st] : st \in steps} |->
           LET hits == {st \in steps : nameOf[st] = f}
               last == CHOOSE st \in hits : \A t \in hits : t[1] <= st[1]
           IN Render(rpc_data, Services[last[1]], last[2])]

\* main is past the first iteration of its loop over the services: the
\* generate_* call it makes next repeats a call of the first iteration
RepeatedCall ==
    /\ pc = "generate"
    /\ Services # <<>>
    /\ k >= Len(CallsOf(variant, Services[1])) * Len(Services)

\* no two service entries with the same lowercased name differ
NoCollision ==
    \A i \in DOMAIN Services, j \in DOMAIN Services :
        Lower(Services[i].name) = Lower(Services[j].name) => Services[i] = Services[j]

\* C20 (as stated): in the flatcc variant, for a schema whose services all
\* have one mode, a successful run leaves the directory of the reference
\* per-service orchestration, and the repeated whole-schema generate_*
\* calls only overwrite files with identical content.
C20_RepeatedCallsRewriteSameContent ==
    [][(variant = "flatcc" /\ pc = "generate" /\ SameMode) =>
          /\ RepeatedCall => files' = files
          /\ (pc' = "end" /\ returned' = "0") => files' = ReferenceFiles]_vars

\* C20 (amended): in the flatcc variant, for a schema whose services all
\* have one mode, a successful run leaves the directory of the reference
\* per-service orchestration; the repeated whole-schema generate_* calls
\* only overwrite files with identical content when no two service entries
\* with the same lowercased name differ.
C20_SameModeMatchesReference ==
    [][(variant = "flatcc" /\ pc = "generate" /\ SameMode) =>
          /\ (RepeatedCall /\ NoCollision) => files' = files
          /\ (pc' = "end" /\ returned' = "0") => files' = ReferenceFiles]_vars

C20_Witness ==
    /\ variant = "flatcc"
    /\ Succeeded
    /\ run = 1
    /\ SameMode
    /\ Len(Services) = 2
    /\ ~NoCollision
    /\ files = ReferenceFiles
    /\ Len(writes) = 20

\* the last service entry, in declaration order, whose lowercased name is
\* that of the i-th entry
LastColliding(i) ==
    LET same == {j \in DOMAIN Services :
                    Lower(Services[j].name) = Lower(Services[i].name)}
    IN CHOOSE j \in same : \A x \in same : x <= j

\* C21: output file names are the lowercased namespace and the lowercased
\* service name plus a suffix, so service entries whose names are equal
\* after lowercasing are written to the same file names; after a
\* successful run each file written for such an entry holds the render for
\* the last of these entries in declaration order.
C21_CollidingNamesLastWins ==
    /\ \A x \in DOMAIN writes :
          MatchLit(writes[x].file, 1,
                   Lower(rpc_data.namespace) \o "_"
                      \o Lower(Services[writes[x].service].name) \o "_")
    /\ Succeeded =>
          /\ \A i \in DOMAIN Services : WrittenFor(i) = WrittenFor(LastColliding(i))
          /\ \A x \in DOMAIN writes :
                /\ writes[x].file \in DOMAIN files
                /\ files[writes[x].file].service
                      = Services[LastColliding(writes[x].service)]

C21_Witness ==
    /\ Succeeded
    /\ Len(Services) = 2
    /\ Services[1].name = "ChatBroadcast"
    /\ Services[2].name = "chatbroadcast"
    /\ LastColliding(1) = 2
    /\ \A f \in DOMAIN files : files[f].service = Services[2]
    /\ WrittenFor(1) # {}

====
